---- MODULE Spec2Model ----
(***************************************************************************)
(* Ponkey front end: the Tokenizer (src/src/ponkey/tokenizer.py), the      *)
(* token model (src/src/ponkey/token.py), the syntax nodes                 *)
(* (src/src/ponkey/ast.py) and the Parser (src/src/ponkey/parser.py).      *)
(*                                                                         *)
(* A Python str is modelled as a sequence of one-character strings; Str    *)
(* joins such a sequence into a TLA+ string where the code formats or      *)
(* compares whole strings.  Python's None is None for objects and ChNone   *)
(* for the character slot Tokenizer.ch.  A raised exception is an outcome  *)
(* of the operator that raises it (field raised) and ends the parse with   *)
(* pc = "raised".                                                          *)
(***************************************************************************)
EXTENDS Integers, Sequences, FiniteSets, TLC

VARIABLES
    tokenizer,      \* Tokenizer: [input, position, read_position, ch]
    current_token,  \* Parser.current_token
    peek_token,     \* Parser.peek_token
    errors,         \* Parser.errors
    statements,     \* program.statements of the Program parse_program builds
    stmt,           \* the statement under construction / returned by parse_statement
    pc,             \* where the parser is
    exc,            \* the exception that left the parser, or NoExc
    out             \* the results of direct Tokenizer.next_token calls, in order

vars == <<tokenizer, current_token, peek_token, errors, statements, stmt, pc, exc, out>>

(***************************************************************************)
(* Bounds of the model.                                                    *)
(***************************************************************************)
MaxLen == 3         \* inputs of every length up to MaxLen over Alphabet
MaxWords == 4       \* inputs of up to MaxWords lexemes from Words
ExtraCalls == 3     \* direct next_token calls beyond the length of the input
MaxReturns == 3     \* inputs of up to MaxReturns statements `return <int>;`
MaxCalls == 3       \* next_token / expect_peek calls on a constructed Parser
MaxLets == 3        \* inputs of up to MaxLets let statements, well-formed or not

(***************************************************************************)
(* Strings.                                                                *)
(***************************************************************************)
None == [kind |-> "None"]
ChNone == "None"
NoExc == "NoExc"

RECURSIVE Str(_)
Str(s) == IF s = <<>> THEN "" ELSE Head(s) \o Str(Tail(s))

Range(s) == {s[i] : i \in DOMAIN s}

Min(a, b) == IF a <= b THEN a ELSE b

\* The one element of a singleton set.  The({F(x) : x \in {e}}) is F of the
\* value of e, computed once and then named x: the local variable a Python
\* statement assigns a call's result to.
The(S) == CHOOSE v \in S : TRUE

\* Runs of ASCII characters in code-point order, each with the code point
\* of its first character (tab, LF, CR, then the printable characters
\* without the double quote, the backslash and the backquote).
AsciiRuns ==
 << [first |-> 9, chars |-> << "\t", "\n" >>],
    [first |-> 13, chars |-> << "\r" >>],
    [first |-> 32, chars |->
        << " ", "!" >>],
    [first |-> 35, chars |->
        << "#", "$", "%", "&", "'", "(", ")", "*", "+", ",", "-", ".", "/", "0", "1", "2",
           "3", "4", "5", "6", "7", "8", "9", ":", ";", "<", "=", ">", "?", "@", "A", "B",
           "C", "D", "E", "F", "G", "H", "I", "J", "K", "L", "M", "N", "O", "P", "Q", "R",
           "S", "T", "U", "V", "W", "X", "Y", "Z", "[" >>],
    [first |-> 93, chars |->
        << "]", "^", "_" >>],
    [first |-> 97, chars |->
        << "a", "b", "c", "d", "e", "f", "g", "h", "i", "j", "k", "l", "m", "n", "o", "p",
           "q", "r", "s", "t", "u", "v", "w", "x", "y", "z", "{", "|", "}", "~" >>] >>

AsciiChars == UNION {{r.chars[i] : i \in DOMAIN r.chars} : r \in {AsciiRuns[k] : k \in DOMAIN AsciiRuns}}

\* ord(c): the code point of a one-character string, which Python's
\* comparison of one-character strings compares.
Ord ==
    [c \in AsciiChars |->
        LET k == CHOOSE k \in DOMAIN AsciiRuns :
                    \E i \in DOMAIN AsciiRuns[k].chars : AsciiRuns[k].chars[i] = c
            i == CHOOSE i \in DOMAIN AsciiRuns[k].chars : AsciiRuns[k].chars[i] = c
        IN  AsciiRuns[k].first + i - 1]

(***************************************************************************)
(* token.py                                                                *)
(***************************************************************************)
ASSIGN == "="
PLUS == "+"
MINUS == "-"
BANG == "!"
ASTERISK == "*"
SLASH == "/"
LT == "<"
GT == ">"
EQ == "=="
NEQ == "!="
FUNCTION == "func"
LET_ == "let"
TRUE_ == "true"
FALSE_ == "false"
IF_ == "if"
ELSE_ == "else"
RETURN == "return"
INT == "INT"
LPAREN == "("
RPAREN == ")"
LBRACE == "{"
RBRACE == "}"
SEMICOLON == ";"
COMMA == ","
IDENT == "IDENT"
EOF == ""
ILLEGAL == "ILLEGAL"

Token(type, literal) == [type |-> type, literal |-> literal]

PreservedKeywords ==
    [func |-> FUNCTION, let |-> LET_, true |-> TRUE_, false |-> FALSE_,
     if |-> IF_, else |-> ELSE_, return |-> RETURN]

lookup_table(literal) ==
    IF Str(literal) \in DOMAIN PreservedKeywords
    THEN PreservedKeywords[Str(literal)]
    ELSE IDENT

(***************************************************************************)
(* tokenizer.py.  A tokenizer operator takes the Tokenizer t and yields    *)
(* the Tokenizer after it, with the value returned and whether it raised.  *)
(***************************************************************************)
WHITESPACESNoCR == {" ", "\t", "\n"}

WHITESPACES == {" ", "\t", "\n", "\r"}

\* The cursor only ever compares read_position with len(input) and slices
\* up to a position <= len(input): positions past len(input) + 1 behave
\* alike, and the model keeps the (unbounded) Python integer there.
PosLimit(t) == Len(t.input) + 1

peek_char(t) ==
    IF t.read_position >= Len(t.input) THEN ChNone ELSE t.input[t.read_position + 1]

read_char(t) ==
    LET p == Min(t.read_position, PosLimit(t))
    IN  [t EXCEPT !.ch = IF t.read_position >= Len(t.input)
                         THEN ChNone ELSE t.input[t.read_position + 1],
                  !.position = p,
                  !.read_position = p + 1]

\* _is_letter / _is_number on a character that is not None; the callers
\* below take the ValueError branch for None.
is_letter(c) ==
    \/ (Ord["a"] <= Ord[c] /\ Ord[c] <= Ord["z"])
    \/ (Ord["A"] <= Ord[c] /\ Ord[c] <= Ord["Z"])
    \/ c = "_"

is_number(c) == Ord["0"] <= Ord[c] /\ Ord[c] <= Ord["9"]

RECURSIVE _skip_whitespace(_)
_skip_whitespace(t) ==
    IF t.ch \in WHITESPACES
    THEN The({_skip_whitespace(t2) : t2 \in {read_char(t)}})
    ELSE t

\* input[start_position : self.position]
Slice(t, start_position) ==
    SubSeq(t.input, start_position + 1, t.position)

\* The while loop of read_identifier: _is_letter raises ValueError on None.
RECURSIVE read_identifier_loop(_)
read_identifier_loop(t) ==
    IF t.ch = ChNone THEN [t |-> t, raised |-> TRUE]
    ELSE IF is_letter(t.ch)
    THEN The({read_identifier_loop(t2) : t2 \in {read_char(t)}})
    ELSE [t |-> t, raised |-> FALSE]

\* [t, raised, literal]
read_identifier(t) ==
    The({
        [t |-> r.t, raised |-> r.raised,
         literal |-> IF r.raised THEN <<>> ELSE Slice(r.t, t.position)]
         : r \in {read_identifier_loop(t)}})

RECURSIVE read_number_loop(_)
read_number_loop(t) ==
    IF t.ch = ChNone THEN [t |-> t, raised |-> TRUE]
    ELSE IF is_number(t.ch)
    THEN The({read_number_loop(t2) : t2 \in {read_char(t)}})
    ELSE [t |-> t, raised |-> FALSE]

read_number(t) ==
    The({
        [t |-> r.t, raised |-> r.raised,
         literal |-> IF r.raised THEN <<>> ELSE Slice(r.t, t.position)]
         : r \in {read_number_loop(t)}})

Returned(t, tok) == [t |-> t, tok |-> tok, raised |-> FALSE]
Raised(t) == [t |-> t, tok |-> None, raised |-> TRUE]

SingleCharTokens ==
    [c \in {"+", "-", "*", "/", "<", ">", "(", ")", "{", "}", ",", ";"} |->
        CASE c = "+" -> PLUS  [] c = "-" -> MINUS   [] c = "*" -> ASTERISK
          [] c = "/" -> SLASH [] c = "<" -> LT      [] c = ">" -> GT
          [] c = "(" -> LPAREN [] c = ")" -> RPAREN [] c = "{" -> LBRACE
          [] c = "}" -> RBRACE [] c = "," -> COMMA  [] c = ";" -> SEMICOLON]

TwoCharOneRead(t, type) == Returned(read_char(t), Token(type, <<t.ch, peek_char(t)>>))

\* The two-character branch of "=" and "!": ch = self.ch; self.read_char();
\* literal = ch + self.ch; and the read_char() that ends next_token.
TwoChar(t, type) ==
    The({
        Returned(read_char(t2), Token(type, <<t.ch, t2.ch>>))
        : t2 \in {read_char(t)}})

\* next_token from its match statement on.
next_token_after_ws(t) ==
    IF t.ch = "=" THEN
        IF peek_char(t) = "=" THEN TwoChar(t, EQ)
        ELSE Returned(read_char(t), Token(ASSIGN, <<"=">>))
    ELSE IF t.ch = "!" THEN
        IF peek_char(t) = "=" THEN TwoChar(t, NEQ)
        ELSE Returned(read_char(t), Token(BANG, <<"!">>))
    ELSE IF t.ch \in DOMAIN SingleCharTokens THEN
        Returned(read_char(t), Token(SingleCharTokens[t.ch], <<t.ch>>))
    ELSE IF t.ch = ChNone THEN
        Returned(read_char(t), Token(EOF, <<>>))
    ELSE IF is_letter(t.ch) THEN
        The({
            IF r.raised THEN Raised(r.t)
            ELSE Returned(r.t, Token(lookup_table(r.literal), r.literal))
            : r \in {read_identifier(t)}})
    ELSE IF is_number(t.ch) THEN
        The({
            IF r.raised THEN Raised(r.t) ELSE Returned(r.t, Token(INT, r.literal))
            : r \in {read_number(t)}})
    ELSE Returned(read_char(t), Token(ILLEGAL, <<t.ch>>))

next_token(t) == The({next_token_after_ws(t1) : t1 \in {_skip_whitespace(t)}})

\* Tokenizer(input): the dataclass fields, then __post_init__'s read_char.
NewTokenizer(input) ==
    read_char([input |-> input, position |-> 0, read_position |-> 0, ch |-> ChNone])

(***************************************************************************)
(* exception.py and ast.py.  A constructor yields the node, or ValueError  *)
(* when its token check fails.                                             *)
(***************************************************************************)
ValueError == [kind |-> "ValueError"]

UnexpectedToken(expected, got) == [expected |-> expected, got |-> got]

\* UnexpectedToken.__str__
UnexpectedToken_str(e) ==
    "expected next token to be " \o e.expected \o ", got " \o e.got \o " instead"

Identifier(token, value) ==
    IF token.type # IDENT THEN ValueError
    ELSE [kind |-> "Identifier", token |-> token, value |-> value]

LetStatement(token) ==
    IF Str(token.literal) # LET_ THEN ValueError
    ELSE [kind |-> "LetStatement", token |-> token, name |-> None, value |-> None]

ReturnStatement(token) ==
    IF Str(token.literal) # RETURN THEN ValueError
    ELSE [kind |-> "ReturnStatement", token |-> token, return_value |-> None]

ExpressionStatement(token, expression) ==
    [kind |-> "ExpressionStatement", token |-> token, expression |-> expression]

IntegerLiteral(token, value) ==
    IF token.type # INT THEN ValueError
    ELSE [kind |-> "IntegerLiteral", token |-> token, value |-> value]

\* string() of the expression nodes: a string, never raising.
Expression_string(e) ==
    IF e.kind = "Identifier" THEN Str(e.value) ELSE Str(e.token.literal)

\* string() of a statement: [raised, out].
LetStatement_string(st) ==
    IF st.name = None THEN [raised |-> TRUE, out |-> ""]
    ELSE [raised |-> FALSE,
          out |-> Str(st.token.literal) \o " " \o Expression_string(st.name) \o " = "
                  \o (IF st.value # None THEN Expression_string(st.value) ELSE "")
                  \o ";"]

ReturnStatement_string(st) ==
    [raised |-> FALSE,
     out |-> Str(st.token.literal)
             \o (IF st.return_value # None THEN Expression_string(st.return_value) ELSE "")
             \o ";"]

ExpressionStatement_string(st) ==
    [raised |-> FALSE,
     out |-> IF st.expression = None THEN "" ELSE Expression_string(st.expression)]

Statement_string(st) ==
    IF st.kind = "LetStatement" THEN LetStatement_string(st)
    ELSE IF st.kind = "ReturnStatement" THEN ReturnStatement_string(st)
    ELSE ExpressionStatement_string(st)

\* Program.string(): "".join of the statements' string(), raising when one does.
RECURSIVE Program_string(_)
Program_string(stmts) ==
    IF stmts = <<>> THEN [raised |-> FALSE, out |-> ""]
    ELSE LET h == Statement_string(Head(stmts))
             r == Program_string(Tail(stmts))
         IN  IF h.raised \/ r.raised THEN [raised |-> TRUE, out |-> ""]
             ELSE [raised |-> FALSE, out |-> h.out \o r.out]

(***************************************************************************)
(* parser.py.  A parser operator takes the Parser p (tokenizer,            *)
(* current_token, peek_token, errors) and yields the Parser after it with  *)
(* the value returned and whether an exception left it.                    *)
(***************************************************************************)
LOWEST == 1

\* The prefix handlers __init__ registers.
prefix_parse_functions == {IDENT, INT}

\* int(text) for the texts the model meets: a run of ASCII digits.
IsDigits(text) == text # <<>> /\ \A i \in DOMAIN text : text[i] \in DOMAIN Ord /\ is_number(text[i])

RECURSIVE int(_)
int(text) ==
    IF Len(text) = 1 THEN Ord[text[1]] - Ord["0"]
    ELSE 10 * int(SubSeq(text, 1, Len(text) - 1)) + (Ord[text[Len(text)]] - Ord["0"])

\* self.current_token = self.peek_token; self.peek_token = self.tokenizer.next_token()
Parser_next_token(p) ==
    The({
        IF r.raised
        THEN [p |-> [p EXCEPT !.current_token = p.peek_token, !.tokenizer = r.t],
              raised |-> TRUE]
        ELSE [p |-> [p EXCEPT !.current_token = p.peek_token, !.peek_token = r.tok,
                              !.tokenizer = r.t],
              raised |-> FALSE]
              : r \in {next_token(p.tokenizer)}})

_init_tokens(p) ==
    The({
        IF a.raised THEN a ELSE Parser_next_token(a.p)
        : a \in {Parser_next_token(p)}})

peek_token_is(p, token_type) == p.peek_token.type = token_type

peek_errorSwapped(p, token_type) ==
    [p EXCEPT !.errors = Append(p.errors, UnexpectedToken(p.peek_token.type, token_type))]

peek_error(p, token_type) ==
    [p EXCEPT !.errors = Append(p.errors, UnexpectedToken(token_type, p.peek_token.type))]

\* [p, ok, raised]
expect_peek(p, token_type) ==
    IF p.peek_token = None THEN [p |-> p, ok |-> FALSE, raised |-> TRUE]
    ELSE IF peek_token_is(p, token_type)
    THEN The({
            [p |-> a.p, ok |-> TRUE, raised |-> a.raised]
            : a \in {Parser_next_token(p)}})
    ELSE [p |-> peek_error(p, token_type), ok |-> FALSE, raised |-> FALSE]

_is_end_of_statement(p) == p.current_token = None \/ p.current_token.type = EOF

Result(p, value) == [p |-> p, value |-> value, raised |-> FALSE]
Raise(p) == [p |-> p, value |-> None, raised |-> TRUE]
RaiseTypeError(p) == [p |-> p, value |-> None, raised |-> TRUE, exc |-> "TypeError"]

\* The exception an outcome carries: ValueError unless it names another.
ExcOf(r) == IF "exc" \in DOMAIN r THEN r.exc ELSE "ValueError"

parse_identifier(p) ==
    The({
        IF n = ValueError THEN Raise(p) ELSE Result(p, n)
        : n \in {Identifier(p.current_token, p.current_token.literal)}})

\* int() fails only on a text that is no integer; the handler then calls
\* UnexpectedToken with one argument, which its __init__(expected, got)
\* rejects with a TypeError.
parse_integer_literal(p) ==
    The({
        IF lit = ValueError THEN Raise(p)
        ELSE IF IsDigits(p.current_token.literal)
        THEN Result(p, [lit EXCEPT !.value = int(p.current_token.literal)])
        ELSE RaiseTypeError(p)
        : lit \in {IntegerLiteral(p.current_token, None)}})

parse_expression(p, precedence) ==
    IF p.current_token = None THEN Raise(p)
    ELSE IF p.current_token.type \notin prefix_parse_functions THEN Result(p, None)
    ELSE IF p.current_token.type = IDENT THEN parse_identifier(p)
    ELSE parse_integer_literal(p)

parse_expression_statementKeepsSemicolon(p) ==
    The({
        IF e.raised THEN e
        ELSE Result(e.p, [ExpressionStatement(p.current_token, None)
                            EXCEPT !.expression = IF e.value # None THEN e.value ELSE @])
        : e \in {parse_expression(p, LOWEST)}})

\* stmt.expression = expression, unless it is None; then the optional ";".
parse_expression_statement(p) ==
    The({
        IF e.raised THEN e
        ELSE The({
                IF peek_token_is(e.p, SEMICOLON)
                THEN The({
                        IF a.raised THEN Raise(a.p) ELSE Result(a.p, st)
                        : a \in {Parser_next_token(e.p)}})
                ELSE Result(e.p, st)
                : st \in {[ExpressionStatement(p.current_token, None)
                            EXCEPT !.expression = IF e.value # None THEN e.value ELSE @]}})
        : e \in {parse_expression(p, LOWEST)}})

\* A parse_let_statement that hands back the statement it has begun when a
\* check fails.
parse_let_statement_headKeepsAborted(p) ==
    The({
        IF st = ValueError THEN Raise(p)
        ELSE The({
            IF a.raised THEN Raise(a.p)
            ELSE IF ~a.ok THEN Result(a.p, st)
            ELSE The({
                IF b.raised THEN Raise(b.p)
                ELSE Result(b.p, [st EXCEPT !.name = Identifier(a.p.current_token,
                                                                a.p.current_token.literal)])
                : b \in {expect_peek(a.p, ASSIGN)}})
            : a \in {expect_peek(p, IDENT)}})
        : st \in {LetStatement(p.current_token)}})

\* parse_let_statement up to its while loop: value None is an early
\* "return None"; otherwise value is the LetStatement the loop then holds.
parse_let_statement_head(p) ==
    The({
        IF st = ValueError THEN Raise(p)
        ELSE The({
            IF a.raised THEN Raise(a.p)
            ELSE IF ~a.ok THEN Result(a.p, None)
            ELSE The({
                IF n = ValueError THEN Raise(a.p)
                ELSE The({
                    IF b.raised THEN Raise(b.p)
                    ELSE IF ~b.ok THEN Result(b.p, None)
                    ELSE Result(b.p, [st EXCEPT !.name = n]) : b \in {expect_peek(a.p, ASSIGN)}}) : n \in {Identifier(a.p.current_token, a.p.current_token.literal)}}) : a \in {expect_peek(p, IDENT)}})
                    : st \in {LetStatement(p.current_token)}})

parse_return_statement_headReturnsNone(p) ==
    The({
        IF st = ValueError THEN Raise(p) ELSE Result(p, None)
        : st \in {ReturnStatement(p.current_token)}})

\* parse_return_statement up to its while loop.
parse_return_statement_head(p) ==
    The({
        IF st = ValueError THEN Raise(p) ELSE Result(p, st)
        : st \in {ReturnStatement(p.current_token)}})

(***************************************************************************)
(* Inputs.                                                                 *)
(***************************************************************************)
Alphabet == {"i", "f", "_", "1", "=", "!", ";", " ", "@"}

RECURSIVE SeqsUpTo(_, _)
SeqsUpTo(S, n) ==
    IF n = 0 THEN {<<>>}
    ELSE LET shorter == SeqsUpTo(S, n - 1)
         IN  shorter \cup {Append(s, x) : s \in shorter, x \in S}

Words == {<<"l", "e", "t">>, <<"r", "e", "t", "u", "r", "n">>, <<"x">>, <<"=">>,
          <<"5">>, <<";">>}

\* Lexemes are separated by one space, except that ";" follows its
\* predecessor directly.
RECURSIVE JoinWords(_)
JoinWords(ws) ==
    IF ws = <<>> THEN <<>>
    ELSE IF Len(ws) = 1 THEN ws[1]
    ELSE ws[1] \o (IF ws[2] = <<";">> THEN <<>> ELSE <<" ">>) \o JoinWords(Tail(ws))

Chars(ws) == JoinWords(ws)

NamedInputs ==
    { <<"\t", "\n", "\r", " ">>,
      <<"\n", " ", "\n", "\t", "\r">>,
      <<"f", "o", "o">>,
      <<"1", "2", "a", "b">>,
      <<"1", "2", "a", "b", " ">>,
      <<"f", "u", "n", "c", " ">>,
      <<"t", "r", "u", "e", ";">>,
      <<"f", "a", "l", "s", "e", " ">>,
      <<"e", "l", "s", "e", "=">>,
      <<"i", "f", "(">>,
      <<"l", "e", "t", "s", " ">>,
      <<"L", "e", "t", " ">>,
      <<"r", "e", "t", "_", "u", "r", "n", " ">>,
      <<"l", "e", "t", "5", " ">>,
      Chars(<< <<"l","e","t">>, <<"x">>, <<"=">>, <<"5">>, <<";">> >>),
      Chars(<< <<"l","e","t">>, <<"x">>, <<"=">>, <<"5">> >>),
      Chars(<< <<"l","e","t">>, <<"f","o","o">>, <<"1","2">>, <<";">> >>),
      Chars(<< <<"l","e","t">>, <<"f","o","o">>, <<"=">>, <<"1","2">>, <<";">> >>),
      Chars(<< <<"l","e","t">>, <<"x">>, <<"5">>, <<";">>,
               <<"l","e","t">>, <<"=">>, <<"1","0">>, <<";">>,
               <<"l","e","t">>, <<"8","3","8","8","3","8">>, <<";">> >>),
      Chars(<< <<"a">>, <<"+">>, <<"b">>, <<"*">>, <<"c">> >>),
      Chars(<< <<"a">>, <<"+">>, <<"b">>, <<"*">>, <<"c">>, <<";">> >>),
      Chars(<< <<"a">>, <<"+">>, <<"b">>, <<"+">>, <<"c">> >>),
      Chars(<< <<"a">>, <<"+">>, <<"b">>, <<"+">>, <<"c">>, <<";">> >>),
      Chars(<< <<"-", "a">>, <<"*">>, <<"b">> >>),
      Chars(<< <<"-", "a">>, <<"*">>, <<"b">>, <<";">> >>),
      <<"!", "5", ";">>,
      <<"-", "1", "1", ";">>,
      <<"f", "o", "o", ";">>,
      <<"f", "o", "o", "b", "a", "r", ";">>,
      <<"1", "2", ";">>
    }

\* The lexemes of the statements `return <int>;`, one per entry of ints.
RECURSIVE ReturnWords(_)
ReturnWords(ints) ==
    IF ints = <<>> THEN <<>>
    ELSE << <<"r", "e", "t", "u", "r", "n">>, Head(ints), <<";">> >> \o ReturnWords(Tail(ints))

ReturnInts == {<<"5">>, <<"1", "0">>}

ReturnInputs == {JoinWords(ReturnWords(ints)) : ints \in SeqsUpTo(ReturnInts, MaxReturns) \ {<<>>}}

\* The let statements of the parser tests, by form: well-formed, "=" missing,
\* identifier missing, identifier and "=" missing.
LetForms ==
    [ good     |-> << <<"l", "e", "t">>, <<"x">>, <<"=">>, <<"5">>, <<";">> >>,
      good2    |-> << <<"l", "e", "t">>, <<"y">>, <<"=">>, <<"1", "0">>, <<";">> >>,
      noAssign |-> << <<"l", "e", "t">>, <<"x">>, <<"5">>, <<";">> >>,
      noIdent  |-> << <<"l", "e", "t">>, <<"=">>, <<"1", "0">>, <<";">> >>,
      onlyInt  |-> << <<"l", "e", "t">>, <<"8", "3", "8">>, <<";">> >> ]

\* The lexemes of the let statements of the forms fs, in order.
RECURSIVE LetWords(_)
LetWords(fs) ==
    IF fs = <<>> THEN <<>> ELSE LetForms[Head(fs)] \o LetWords(Tail(fs))

LetInputs == {JoinWords(LetWords(fs)) : fs \in SeqsUpTo(DOMAIN LetForms, MaxLets) \ {<<>>}}

Inputs ==
    SeqsUpTo(Alphabet, MaxLen)
    \cup SeqsUpTo({" ", "\t", "\n", "\r"}, MaxLen)
    \cup {JoinWords(ws) \o tail : ws \in SeqsUpTo(Words, MaxWords), tail \in {<<>>, <<" ">>}}
    \cup NamedInputs
    \cup ReturnInputs
    \cup LetInputs

(***************************************************************************)
(* Direct use of the Tokenizer (as REPL.start does): next_token is called  *)
(* again and again; a caller may catch the ValueError and call again.      *)
(***************************************************************************)
Init ==
    /\ tokenizer \in {NewTokenizer(i) : i \in Inputs}
    /\ current_token = None
    /\ peek_token = None
    /\ errors = <<>>
    /\ statements = <<>>
    /\ stmt = None
    /\ pc = "new"
    /\ exc = NoExc
    /\ out = <<>>

\* One call: the Tokenizer moves on, and the caller sees a token or a ValueError.
Called(r) ==
    /\ tokenizer' = r.t
    /\ out' = Append(out, [tok |-> r.tok, raised |-> r.raised,
                           before |-> tokenizer, after |-> r.t])

TokenizerNextToken ==
    /\ pc = "new"
    /\ Len(out) < Len(tokenizer.input) + ExtraCalls
    /\ \E r \in {next_token(tokenizer)} : Called(r)
    /\ UNCHANGED <<current_token, peek_token, errors, statements, stmt, pc, exc>>

(***************************************************************************)
(* Parser(tokenizer) and parse_program.  pc: "new" before Parser(...),     *)
(* "program" at the test of parse_program's loop, "let_while" /            *)
(* "return_while" at the test of a statement's skip loop, "let_body" /     *)
(* "return_body" in its body, "advance" after parse_statement returned,    *)
(* "done" when parse_program returned, "raised" when an exception left it. *)
(***************************************************************************)
Self == [tokenizer |-> tokenizer, current_token |-> current_token,
         peek_token |-> peek_token, errors |-> errors]

\* The Parser's fields after an operator, then where control goes.
Becomes(p) ==
    /\ tokenizer' = p.tokenizer
    /\ current_token' = p.current_token
    /\ peek_token' = p.peek_token
    /\ errors' = p.errors

Goto(r, label) ==
    /\ Becomes(r.p)
    /\ pc' = IF r.raised THEN "raised" ELSE label
    /\ exc' = IF r.raised THEN ExcOf(r) ELSE exc

\* A parse that gives up at the first statement function returning None.
ReturnStopsOnNone(r, label) ==
    /\ Goto(r, IF r.value = None THEN "done" ELSE label)
    /\ stmt' = r.value

\* A statement function hands back r.value: None goes straight back to
\* parse_program, a statement goes on to label.
Return(r, label) ==
    /\ Goto(r, IF r.value = None THEN "advance" ELSE label)
    /\ stmt' = r.value

\* Parser.__init__
ParserInit ==
    /\ pc = "new"
    /\ out = <<>>
    /\ \E r \in {_init_tokens(Self)} : Goto(r, "program")
    /\ UNCHANGED <<statements, stmt, out>>

\* parse_program: the loop ends, the Program is returned.
ParseProgramReturn ==
    /\ pc = "program"
    /\ _is_end_of_statement(Self)
    /\ pc' = "done"
    /\ UNCHANGED <<tokenizer, current_token, peek_token, errors, statements, stmt, exc, out>>

\* parse_statement, case LET: parse_let_statement up to its loop.
ParseLetStatement ==
    /\ pc = "program"
    /\ ~_is_end_of_statement(Self)
    /\ current_token.type = LET_
    /\ \E r \in {parse_let_statement_head(Self)} : Return(r, "let_while")
    /\ UNCHANGED <<statements, out>>

\* while self.current_token.type != TokenType.SEMICOLON
LetWhileTest ==
    /\ pc = "let_while"
    /\ pc' = IF current_token.type # SEMICOLON THEN "let_body" ELSE "advance"
    /\ UNCHANGED <<tokenizer, current_token, peek_token, errors, statements, stmt, exc, out>>

\* self.next_token() in the loop of parse_let_statement
LetWhileBody ==
    /\ pc = "let_body"
    /\ \E r \in {Parser_next_token(Self)} : Goto(r, "let_while")
    /\ UNCHANGED <<statements, stmt, out>>

\* parse_statement, case RETURN: parse_return_statement up to its loop.
ParseReturnStatement ==
    /\ pc = "program"
    /\ ~_is_end_of_statement(Self)
    /\ current_token.type = RETURN
    /\ \E r \in {parse_return_statement_head(Self)} : Return(r, "return_while")
    /\ UNCHANGED <<statements, out>>

ReturnWhileTest ==
    /\ pc = "return_while"
    /\ pc' = IF current_token.type # SEMICOLON THEN "return_body" ELSE "advance"
    /\ UNCHANGED <<tokenizer, current_token, peek_token, errors, statements, stmt, exc, out>>

ReturnWhileBody ==
    /\ pc = "return_body"
    /\ \E r \in {Parser_next_token(Self)} : Goto(r, "return_while")
    /\ UNCHANGED <<statements, stmt, out>>

\* parse_statement, case _: parse_expression_statement.
ParseExpressionStatement ==
    /\ pc = "program"
    /\ ~_is_end_of_statement(Self)
    /\ current_token.type \notin {LET_, RETURN}
    /\ \E r \in {parse_expression_statement(Self)} : Return(r, "advance")
    /\ UNCHANGED <<statements, out>>

\* parse_program after parse_statement: if stmt: append; self.next_token().
ParseProgramAdvance ==
    /\ pc = "advance"
    /\ statements' = IF stmt # None THEN Append(statements, stmt) ELSE statements
    /\ stmt' = None
    /\ \E r \in {Parser_next_token(Self)} : Goto(r, "program")
    /\ UNCHANGED out

Next ==
    \/ ParserInit
    \/ ParseProgramReturn
    \/ ParseLetStatement
    \/ LetWhileTest
    \/ LetWhileBody
    \/ ParseReturnStatement
    \/ ReturnWhileTest
    \/ ReturnWhileBody
    \/ ParseExpressionStatement
    \/ ParseProgramAdvance

Spec == Init /\ [][Next]_vars

\* parse_program is one synchronous call: a step that can be taken is taken.
FairSpec == Spec /\ WF_vars(Next)

TokNext == TokenizerNextToken

TokSpec == Init /\ [][TokNext]_vars

(***************************************************************************)
(* Direct use of the syntax-node constructors and of the INT prefix        *)
(* handler on a token the caller supplies: Token is a plain dataclass, so  *)
(* any kind can be paired with any literal, and Parser.current_token is a  *)
(* public attribute.  pc = "direct"; out records the one call made.        *)
(***************************************************************************)
TokenTypes ==
    {ASSIGN, PLUS, MINUS, BANG, ASTERISK, SLASH, LT, GT, EQ, NEQ, FUNCTION, LET_, TRUE_,
     FALSE_, IF_, ELSE_, RETURN, INT, LPAREN, RPAREN, LBRACE, RBRACE, SEMICOLON, COMMA,
     IDENT, EOF, ILLEGAL}

TokenLiterals ==
    {<<"l", "e", "t">>, <<"r", "e", "t", "u", "r", "n">>, <<"x">>, <<"5">>, <<"1", "2">>,
     <<"1", "a">>, <<>>}

DirectInit ==
    /\ tokenizer = NewTokenizer(<<>>)
    /\ current_token \in {Token(type, literal) : type \in TokenTypes, literal \in TokenLiterals}
    /\ peek_token = Token(EOF, <<>>)
    /\ errors = <<>>
    /\ statements = <<>>
    /\ stmt = None
    /\ pc = "direct"
    /\ exc = NoExc
    /\ out = <<>>

\* The call and what it gave: the node, or ValueError.
Constructed(node, result) ==
    /\ pc = "direct"
    /\ out = <<>>
    /\ out' = <<[call |-> node, token |-> current_token, result |-> result]>>
    /\ exc' = IF result = ValueError THEN "ValueError" ELSE exc
    /\ UNCHANGED <<tokenizer, current_token, peek_token, errors, statements, stmt, pc>>

ConstructLetStatement ==
    \E node \in {LetStatement(current_token)} : Constructed("LetStatement", node)

ConstructReturnStatement ==
    \E node \in {ReturnStatement(current_token)} : Constructed("ReturnStatement", node)

ConstructIdentifier ==
    \E node \in {Identifier(current_token, current_token.literal)} :
        Constructed("Identifier", node)

ConstructIntegerLiteral ==
    \E node \in {IntegerLiteral(current_token, None)} : Constructed("IntegerLiteral", node)

\* parser.parse_integer_literal() with the supplied token as current_token.
CallParseIntegerLiteral ==
    /\ pc = "direct"
    /\ out = <<>>
    /\ \E r \in {parse_integer_literal(Self)} :
        /\ Becomes(r.p)
        /\ exc' = IF r.raised THEN ExcOf(r) ELSE exc
        /\ out' = <<[call |-> "parse_integer_literal", token |-> current_token,
                     result |-> r.value, raised |-> r.raised]>>
    /\ UNCHANGED <<statements, stmt, pc>>

DirectNext ==
    \/ ConstructLetStatement
    \/ ConstructReturnStatement
    \/ ConstructIdentifier
    \/ ConstructIntegerLiteral
    \/ CallParseIntegerLiteral

DirectSpec == DirectInit /\ [][DirectNext]_vars

(***************************************************************************)
(* The Parser's token operations called by a client after construction:   *)
(* next_token() and expect_peek(kind), up to MaxCalls calls.  out records *)
(* each call with the Parser's fields before it.                           *)
(***************************************************************************)
ExpectKinds == {IDENT, INT, ASSIGN, SEMICOLON}

CallNextToken ==
    /\ pc = "program"
    /\ Len(out) < MaxCalls
    /\ \E r \in {Parser_next_token(Self)} :
        /\ Goto(r, "program")
        /\ out' = Append(out, [call |-> "next_token", kind |-> "", before |-> Self,
                               ok |-> TRUE, raised |-> r.raised])
    /\ UNCHANGED <<statements, stmt>>

CallExpectPeek(kind) ==
    /\ pc = "program"
    /\ Len(out) < MaxCalls
    /\ \E r \in {expect_peek(Self, kind)} :
        /\ Goto(r, "program")
        /\ out' = Append(out, [call |-> "expect_peek", kind |-> kind, before |-> Self,
                               ok |-> r.ok, raised |-> r.raised])
    /\ UNCHANGED <<statements, stmt>>

CallNext ==
    \/ ParserInit
    \/ CallNextToken
    \/ \E kind \in ExpectKinds : CallExpectPeek(kind)

CallSpec == Init /\ [][CallNext]_vars

(***************************************************************************)
(* What the properties below speak of, stated on the input text itself.    *)
(***************************************************************************)
TheInput == tokenizer.input

SpaceChars == {" ", "\t", "\n", "\r"}
LetterChars ==
    {"a", "b", "c", "d", "e", "f", "g", "h", "i", "j", "k", "l", "m", "n", "o", "p", "q",
     "r", "s", "t", "u", "v", "w", "x", "y", "z", "A", "B", "C", "D", "E", "F", "G", "H",
     "I", "J", "K", "L", "M", "N", "O", "P", "Q", "R", "S", "T", "U", "V", "W", "X", "Y",
     "Z", "_"}
DigitChars == {"0", "1", "2", "3", "4", "5", "6", "7", "8", "9"}
KeywordTexts == {"let", "func", "true", "false", "if", "else", "return"}

\* The 0-based index of the first character at or after k that is not in S
\* (the length of the text when there is none).
FirstNotIn(text, k, S) ==
    IF k >= Len(text) THEN Len(text)
    ELSE CHOOSE m \in k..Len(text) :
            /\ m = Len(text) \/ text[m + 1] \notin S
            /\ \A j \in k..(m - 1) : text[j + 1] \in S

\* Where the token of call e starts: the first non-whitespace character
\* at or after the cursor the call found.
TokenStart(e) == FirstNotIn(e.before.input, e.before.position, SpaceChars)

CharAt(text, k) == IF k < Len(text) THEN text[k + 1] ELSE ChNone

EofToken == [type |-> "", literal |-> <<>>]

Text(ws) == JoinWords(ws)

\* C1: parse_program terminates on every input: once the Parser is
\* constructed, the parse comes to an end (here even counting an exception
\* that leaves parse_program as an end).
C1_ParseProgramTerminates == (pc = "program") ~> (pc \in {"done", "raised"})

\* C2: every next_token call yields exactly one Token and raises nothing,
\* also when an identifier or digit run reaches the end of the input.
C2_NextTokenNeverRaises ==
    \A i \in DOMAIN out : ~out[i].raised /\ out[i].tok # None

\* C3: on an empty or whitespace-only input the first next_token call
\* returns EOF; and on every input, every call after one that returned EOF
\* returns EOF (empty literal) too and raises nothing.
C3_EofIsIdempotent ==
    /\ (Range(TheInput) \subseteq SpaceChars /\ out # <<>>)
            => (~out[1].raised /\ out[1].tok = EofToken)
    /\ \A i, j \in DOMAIN out :
            (i < j /\ ~out[i].raised /\ out[i].tok.type = "")
                => (~out[j].raised /\ out[j].tok = EofToken)

C3_Witness ==
    /\ Len(TheInput) >= 2
    /\ Range(TheInput) = {"\r", "\n"}
    /\ Len(out) >= 3
    /\ out[1].tok = EofToken /\ out[3].tok = EofToken

\* C4: a call that finds a letter or underscore returns a token whose
\* literal is the maximal run of letters/underscores there, of the keyword
\* kind when the run is exactly a keyword and of kind IDENT otherwise.
C4_IdentifierRunClassified ==
    \A i \in DOMAIN out :
        LET e == out[i]
            s == TokenStart(e)
            m == FirstNotIn(TheInput, s, LetterChars)
            run == SubSeq(TheInput, s + 1, m)
        IN  CharAt(TheInput, s) \in LetterChars
                => /\ ~e.raised
                   /\ e.tok.literal = run
                   /\ e.after.position = m
                   /\ e.tok.type = IF Str(run) \in KeywordTexts THEN Str(run) ELSE "IDENT"

\* C5: "=" followed by "=" is one EQ token "==" and both characters are
\* consumed, "=" otherwise is ASSIGN and one character is consumed; "!"
\* followed by "=" is one NEQ token "!=", "!" otherwise is BANG; so "==="
\* is EQ then ASSIGN and "!==" is NEQ then ASSIGN.
C5_OneCharLookahead ==
    /\ \A i \in DOMAIN out :
        LET e == out[i]
            s == TokenStart(e)
            c == CharAt(TheInput, s)
            d == CharAt(TheInput, s + 1)
        IN  /\ (c = "=" /\ d = "=")
                => (~e.raised /\ e.tok = [type |-> "==", literal |-> <<"=", "=">>]
                    /\ e.after.position = s + 2 /\ e.after.ch = CharAt(TheInput, s + 2))
            /\ (c = "=" /\ d # "=")
                => (~e.raised /\ e.tok = [type |-> "=", literal |-> <<"=">>]
                    /\ e.after.position = s + 1 /\ e.after.ch = d)
            /\ (c = "!" /\ d = "=")
                => (~e.raised /\ e.tok = [type |-> "!=", literal |-> <<"!", "=">>]
                    /\ e.after.position = s + 2 /\ e.after.ch = CharAt(TheInput, s + 2))
            /\ (c = "!" /\ d # "=")
                => (~e.raised /\ e.tok = [type |-> "!", literal |-> <<"!">>]
                    /\ e.after.position = s + 1 /\ e.after.ch = d)
    /\ (TheInput = <<"=", "=", "=">> /\ Len(out) >= 2)
            => (out[1].tok.type = "==" /\ out[2].tok.type = "=")
    /\ (TheInput = <<"!", "=", "=">> /\ Len(out) >= 2)
            => (out[1].tok.type = "!=" /\ out[2].tok.type = "=")

C5_Witness ==
    /\ TheInput = <<"!", "=", "=">>
    /\ Len(out) = 3
    /\ out[1].tok.type = "!=" /\ out[2].tok.type = "=" /\ out[3].tok.type = ""

\* C6: a call that finds a digit returns an INT token whose literal is the
\* maximal run of digits there and leaves the cursor on the first
\* character after the run.
C6_DigitRunIsInt ==
    \A i \in DOMAIN out :
        LET e == out[i]
            s == TokenStart(e)
            m == FirstNotIn(TheInput, s, DigitChars)
        IN  CharAt(TheInput, s) \in DigitChars
                => /\ ~e.raised
                   /\ e.tok = [type |-> "INT", literal |-> SubSeq(TheInput, s + 1, m)]
                   /\ e.after.position = m
                   /\ e.after.ch = CharAt(TheInput, m)

LetWord == <<"l", "e", "t">>
ClaimIdents == {<<"x">>, <<"f", "o", "o">>}
ClaimInts == {[text |-> <<"5">>, value |-> 5], [text |-> <<"1", "2">>, value |-> 12]}

\* C7: for an input `let <ident> = <int>;` parse_program returns exactly
\* one statement, a LetStatement whose name is the Identifier <ident> and
\* whose value is the IntegerLiteral of the base-10 value of <int>.
C7_LetValueIsParsed ==
    \A id \in ClaimIdents, n \in ClaimInts :
        (pc = "done" /\ TheInput = Text(<<LetWord, id, <<"=">>, n.text, <<";">> >>))
            => /\ Len(statements) = 1
               /\ statements[1].kind = "LetStatement"
               /\ statements[1].name.kind = "Identifier"
               /\ statements[1].name.value = id
               /\ statements[1].value.kind = "IntegerLiteral"
               /\ statements[1].value.value = n.value

\* C8: parsing `let x = 5;` and calling string() on the Program gives
\* `let x = 5;` back.
C8_LetStringReproducesInput ==
    (pc = "done" /\ TheInput = Text(<<LetWord, <<"x">>, <<"=">>, <<"5">>, <<";">> >>))
        => Program_string(statements) = [raised |-> FALSE, out |-> "let x = 5;"]

\* C9: for an input `let <ident> <int>;` (the "=" is missing) parse_program
\* returns without raising, and the diagnostics are exactly one entry,
\* rendered `expected next token to be =, got INT instead`.
C9_MissingAssignOneDiagnostic ==
    \A id \in ClaimIdents, n \in ClaimInts :
        TheInput = Text(<<LetWord, id, n.text, <<";">> >>)
            => /\ pc # "raised"
               /\ pc = "done"
                    => /\ Len(errors) = 1
                       /\ UnexpectedToken_str(errors[1])
                            = "expected next token to be =, got INT instead"

C9_Witness ==
    /\ TheInput = Text(<<LetWord, <<"x">>, <<"5">>, <<";">> >>)
    /\ pc = "done"
    /\ Len(errors) = 1

\* C10: a current token without a prefix handler gives the diagnostic
\* `no prefix parse function for <kind> found`, so that the input
\* `let x 5; let = 10; let 838838;` ends with these four diagnostics.
C10_NoPrefixDiagnostic ==
    (pc = "done"
     /\ TheInput = Text(<< LetWord, <<"x">>, <<"5">>, <<";">>,
                           LetWord, <<"=">>, <<"1", "0">>, <<";">>,
                           LetWord, <<"8", "3", "8", "8", "3", "8">>, <<";">> >>))
        => [i \in DOMAIN errors |-> UnexpectedToken_str(errors[i])]
            = << "expected next token to be =, got INT instead",
                 "expected next token to be IDENT, got = instead",
                 "no prefix parse function for = found",
                 "expected next token to be IDENT, got INT instead" >>

\* `a <op1> b <op2> c`, alone and closed by ";".
ExprABC(op1, op2) ==
    {Text(<< <<"a">>, <<op1>>, <<"b">>, <<op2>>, <<"c">> >> \o tail) : tail \in {<<>>, << <<";">> >>}}

\* C11: `a + b * c` parses to one expression statement that string()
\* renders as `(a + (b * c))`: PRODUCT binds tighter than SUM.
C11_ProductBindsTighterThanSum ==
    (pc = "done" /\ TheInput \in ExprABC("+", "*"))
        => /\ Len(statements) = 1
           /\ Program_string(statements) = [raised |-> FALSE, out |-> "(a + (b * c))"]

\* C12: `a + b + c` parses to one expression statement that string()
\* renders as `((a + b) + c)`: equal precedence associates to the left.
C12_EqualPrecedenceLeftAssociative ==
    (pc = "done" /\ TheInput \in ExprABC("+", "+"))
        => /\ Len(statements) = 1
           /\ Program_string(statements) = [raised |-> FALSE, out |-> "((a + b) + c)"]

\* C13: `!<int>;` and `-<int>;` parse to exactly one statement, an
\* ExpressionStatement holding a PrefixExpression; and `-a * b` renders
\* through string() as `((-a) * b)`.
C13_PrefixOperatorOneExpression ==
    /\ (pc = "done" /\ TheInput \in {<<"!", "5", ";">>, <<"-", "1", "1", ";">>})
            => /\ Len(statements) = 1
               /\ statements[1].kind = "ExpressionStatement"
               /\ statements[1].expression # None
               /\ statements[1].expression.kind = "PrefixExpression"
    /\ (pc = "done"
        /\ TheInput \in {Text(<< <<"-", "a">>, <<"*">>, <<"b">> >> \o tail) : tail \in {<<>>, << <<";">> >>}})
            => Program_string(statements) = [raised |-> FALSE, out |-> "((-a) * b)"]

\* C14: for an input of n >= 1 statements `return <int>;` parse_program
\* returns (without raising) exactly n statements, each a ReturnStatement
\* whose token literal is `return`, and the diagnostics list is empty.
C14_ReturnStatementsCounted ==
    \A ints \in SeqsUpTo(ReturnInts, MaxReturns) \ {<<>>} :
        TheInput = Text(ReturnWords(ints))
            => /\ pc # "raised"
               /\ pc = "done"
                    => /\ Len(statements) = Len(ints)
                       /\ \A i \in DOMAIN statements :
                            /\ statements[i].kind = "ReturnStatement"
                            /\ Str(statements[i].token.literal) = "return"
                       /\ errors = <<>>

C14_Witness ==
    /\ TheInput = Text(ReturnWords(<< <<"5">>, <<"1", "0">>, <<"5">> >>))
    /\ pc = "done"
    /\ Len(statements) = 3
    /\ statements[3].kind = "ReturnStatement"

DigitValue ==
    [c \in DigitChars |->
        CASE c = "0" -> 0 [] c = "1" -> 1 [] c = "2" -> 2 [] c = "3" -> 3 [] c = "4" -> 4
          [] c = "5" -> 5 [] c = "6" -> 6 [] c = "7" -> 7 [] c = "8" -> 8 [] c = "9" -> 9]

\* The base-10 value of a non-empty run of digits.
RECURSIVE Base10(_)
Base10(digits) ==
    IF Len(digits) = 1 THEN DigitValue[digits[1]]
    ELSE 10 * Base10(SubSeq(digits, 1, Len(digits) - 1)) + DigitValue[digits[Len(digits)]]

\* The input is one run of characters of S (at least one) followed by ";".
IsRunThenSemicolon(S) ==
    /\ Len(TheInput) >= 2
    /\ TheInput[Len(TheInput)] = ";"
    /\ \A i \in 1..(Len(TheInput) - 1) : TheInput[i] \in S

\* C15: for an input that is one IDENT or INT token followed by ";",
\* parse_program returns (without raising) exactly one statement, an
\* ExpressionStatement whose token literal is the token's text and whose
\* expression is the Identifier of that text resp. the IntegerLiteral of its
\* base-10 value; the ";" gives no second statement.
C15_SingleTokenExpressionStatement ==
    LET text == SubSeq(TheInput, 1, Len(TheInput) - 1)
        isIdent == IsRunThenSemicolon(LetterChars) /\ Str(text) \notin KeywordTexts
        isInt == IsRunThenSemicolon(DigitChars)
    IN  (isIdent \/ isInt)
            => /\ pc # "raised"
               /\ pc = "done"
                    => /\ Len(statements) = 1
                       /\ statements[1].kind = "ExpressionStatement"
                       /\ statements[1].token.literal = text
                       /\ isIdent => /\ statements[1].expression.kind = "Identifier"
                                     /\ statements[1].expression.value = text
                       /\ isInt => /\ statements[1].expression.kind = "IntegerLiteral"
                                   /\ statements[1].expression.value = Base10(text)

C15_Witness ==
    /\ TheInput = <<"1", "2", ";">>
    /\ pc = "done"
    /\ Len(statements) = 1
    /\ statements[1].expression.value = 12

\* The kind of token each syntax node requires.
RequiredKind ==
    [LetStatement |-> "let", ReturnStatement |-> "return", Identifier |-> "IDENT",
     IntegerLiteral |-> "INT"]

\* C16: a syntax-node constructor succeeds exactly when the supplied
\* token's kind is the kind the node requires, whatever the literal is.
C16_ConstructorChecksTokenKind ==
    \A i \in DOMAIN out :
        out[i].call \in DOMAIN RequiredKind
            => ((out[i].result # ValueError) <=> (out[i].token.type = RequiredKind[out[i].call]))

\* C18: parse_integer_literal on an INT token whose literal is not a
\* base-10 integer does not raise: it appends the one diagnostic
\* `could not parse <text> as integer` and returns an IntegerLiteral
\* whose value is absent.
C18_BadIntegerIsDiagnosed ==
    \A i \in DOMAIN out :
        (/\ out[i].call = "parse_integer_literal"
         /\ out[i].token.type = INT
         /\ ~IsDigits(out[i].token.literal))
            => /\ ~out[i].raised
               /\ exc = NoExc
               /\ errors = <<"could not parse " \o Str(out[i].token.literal) \o " as integer">>
               /\ out[i].result.kind = "IntegerLiteral"
               /\ out[i].result.value = None

\* The optional fields of a statement, all present.
OptionalFieldsPresent(s) ==
    CASE s.kind = "LetStatement" -> s.name # None /\ s.value # None
      [] s.kind = "ReturnStatement" -> s.return_value # None
      [] s.kind = "ExpressionStatement" -> s.expression # None
      [] OTHER -> TRUE

\* C17: when parse_program returns with an empty diagnostics list, every
\* statement of the Program has all its optional fields present.
C17_NoDiagnosticNoAbsentField ==
    (pc = "done" /\ errors = <<>>)
        => \A i \in DOMAIN statements : OptionalFieldsPresent(statements[i])

\* The last call made on the Parser.
LastCall == out[Len(out)]

\* C19: expect_peek(kind) has exactly two outcomes.  Peek of that kind:
\* success, current_token is the old peek_token, peek_token is the
\* scanner's next token, the diagnostics are unchanged.  Otherwise: failure,
\* exactly one diagnostic `expected next token to be <kind>, got <peek.kind>
\* instead` is appended, and current_token, peek_token and the scanner
\* cursor are unchanged.
C19_ExpectPeekTwoOutcomes ==
    (out # <<>> /\ LastCall.call = "expect_peek")
        => IF LastCall.before.peek_token.type = LastCall.kind
           THEN /\ ~LastCall.raised
                /\ LastCall.ok
                /\ current_token = LastCall.before.peek_token
                /\ ~next_token(LastCall.before.tokenizer).raised
                /\ peek_token = next_token(LastCall.before.tokenizer).tok
                /\ tokenizer = next_token(LastCall.before.tokenizer).t
                /\ errors = LastCall.before.errors
           ELSE /\ ~LastCall.raised
                /\ ~LastCall.ok
                /\ Len(errors) = Len(LastCall.before.errors) + 1
                /\ SubSeq(errors, 1, Len(errors) - 1) = LastCall.before.errors
                /\ UnexpectedToken_str(errors[Len(errors)])
                    = "expected next token to be " \o LastCall.kind \o ", got "
                        \o LastCall.before.peek_token.type \o " instead"
                /\ current_token = LastCall.before.current_token
                /\ peek_token = LastCall.before.peek_token
                /\ tokenizer = LastCall.before.tokenizer

\* The first n tokens the scanner delivers from t on (fewer when a call raises).
RECURSIVE TokenStream(_, _)
TokenStream(t, n) ==
    IF n = 0 THEN <<>>
    ELSE The({
            IF r.raised THEN <<>> ELSE <<r.tok>> \o TokenStream(r.t, n - 1)
            : r \in {next_token(t)}})

\* The calls that moved the Parser one token on.
Advances == {i \in DOMAIN out : out[i].ok /\ ~out[i].raised}

\* C20: once the Parser is constructed, current_token and peek_token are
\* two consecutive tokens of the scanner's stream: the first and the second
\* after construction, and one further on after every call that advances.
C20_TwoTokenLookahead ==
    (pc = "program" \/ out # <<>>)
        => \E stream \in {TokenStream(NewTokenizer(TheInput), 2 + Cardinality(Advances))} :
            /\ Len(stream) = 2 + Cardinality(Advances)
            /\ current_token = stream[Len(stream) - 1]
            /\ peek_token = stream[Len(stream)]

\* The diagnostic each malformed form of let statement causes.
ExpectedDiagnostic ==
    [ noAssign |-> "expected next token to be =, got INT instead",
      noIdent  |-> "expected next token to be IDENT, got = instead",
      onlyInt  |-> "expected next token to be IDENT, got INT instead" ]

\* The name each well-formed form binds.
ExpectedName == [good |-> "x", good2 |-> "y"]

RECURSIVE ExpectedDiagnostics(_)
ExpectedDiagnostics(fs) ==
    IF fs = <<>> THEN <<>>
    ELSE (IF Head(fs) \in DOMAIN ExpectedDiagnostic
          THEN <<ExpectedDiagnostic[Head(fs)]>> ELSE <<>>) \o ExpectedDiagnostics(Tail(fs))

RECURSIVE ExpectedNames(_)
ExpectedNames(fs) ==
    IF fs = <<>> THEN <<>>
    ELSE (IF Head(fs) \in DOMAIN ExpectedName
          THEN <<ExpectedName[Head(fs)]>> ELSE <<>>) \o ExpectedNames(Tail(fs))

IsLet(s) == s.kind = "LetStatement"

\* The names of the LetStatements of the Program, in order ("" when absent).
LetNames ==
    [i \in DOMAIN SelectSeq(statements, IsLet) |->
        IF SelectSeq(statements, IsLet)[i].name = None THEN ""
        ELSE Str(SelectSeq(statements, IsLet)[i].name.value)]

Rendered == [i \in DOMAIN errors |-> UnexpectedToken_str(errors[i])]

\* Each sequence of forms with its input text and what is expected of it.
LetCases ==
    { [input |-> Text(LetWords(fs)), diagnostics |-> ExpectedDiagnostics(fs),
       names |-> ExpectedNames(fs)] : fs \in SeqsUpTo(DOMAIN LetForms, MaxLets) \ {<<>>} }

\* What C21 says of the state: no exception, and at the return the
\* diagnostics and the LetStatements are those of the forms, in order.
MultiErrorReport ==
    \A c \in LetCases :
        TheInput = c.input
            => /\ pc # "raised"
               /\ pc = "done"
                    => /\ current_token.type = EOF
                       /\ Rendered = c.diagnostics
                       /\ LetNames = c.names

\* C21: on an input of ";"-terminated let statements of which k lack the
\* identifier or the "=", parse_program runs to the end of the input, the
\* diagnostics are the k `expected next token to be ...` entries in source
\* order, and every well-formed let statement, also after a malformed one,
\* is returned as a LetStatement with its name.
C21_MultiErrorReporting ==
    /\ []MultiErrorReport
    /\ <>(TheInput \in LetInputs => pc = "done")

C21_Witness ==
    /\ TheInput = Text(LetWords(<<"noAssign", "noIdent", "good2">>))
    /\ pc = "done"
    /\ Len(errors) = 2
    /\ LetNames = <<"y">>

\* A LetStatement whose name is an Identifier built from an IDENT token.
HasName(s) ==
    /\ s.name # None
    /\ s.name.kind = "Identifier"
    /\ s.name.token.type = IDENT

\* C22: every LetStatement of the Program has a present name, an
\* Identifier built from an IDENT token, so that Program.string() does not
\* raise; a let statement whose identifier or "=" check fails (the step
\* that appends a diagnostic) is returned as None, and None is not appended.
C22_LetStatementsHaveNames ==
    [][ /\ \A i \in DOMAIN statements' : IsLet(statements'[i]) => HasName(statements'[i])
        /\ ~Program_string(statements').raised
        /\ (pc = "program" /\ current_token.type = LET_ /\ errors' # errors) => stmt' = None
        /\ (pc = "advance" /\ stmt = None) => statements' = statements ]_vars

C22_Witness ==
    /\ TheInput = Text(LetWords(<<"onlyInt", "good">>))
    /\ pc = "done"
    /\ Len(errors) = 1
    /\ Len(SelectSeq(statements, IsLet)) = 1
    /\ ~Program_string(statements).raised

\* A step in which the Parser fetches no, one or two tokens from the scanner,
\* each passing through peek_token and then current_token.
Fetched0 == UNCHANGED <<tokenizer, current_token, peek_token>>

Fetched1 ==
    \E r \in {next_token(tokenizer)} :
        /\ ~r.raised
        /\ tokenizer' = r.t
        /\ current_token' = peek_token
        /\ peek_token' = r.tok

Fetched2 ==
    \E r \in {next_token(tokenizer)} :
        /\ ~r.raised
        /\ \E q \in {next_token(r.t)} :
            /\ ~q.raised
            /\ tokenizer' = q.t
            /\ current_token' = r.tok
            /\ peek_token' = q.tok

\* The step of parse_let_statement in which an expect_peek fails, and the
\* state it leaves: back in parse_program with no statement.
LetAborts == pc = "program" /\ current_token.type = LET_ /\ errors' # errors

LetAborted == pc = "advance" /\ stmt = None

\* What C23 says of a step: the aborted let statement leaves the token of
\* the mismatch in peek_token, parse_program's advance makes it the current
\* token of the next attempt, and no step passes over a token.
Resynchronises ==
    /\ LetAborts
        => /\ LetAborted'
           /\ errors'[Len(errors')].got = peek_token'.type
           /\ Fetched0 \/ Fetched1
    /\ (LetAborted /\ pc' # "raised") => (pc' = "program" /\ Fetched1)
    /\ (pc # "new" /\ pc' # "raised") => (Fetched0 \/ Fetched1 \/ Fetched2)

\* C23: when expect_peek fails inside parse_let_statement, the next
\* statement parse_program attempts starts exactly at the token of the
\* mismatch, the peek token at the time of the failure; no token is
\* skipped, and the parse goes on to that next attempt.
C23_ResynchronisesAtMismatch ==
    /\ [][Resynchronises]_vars
    /\ LetAborted ~> (pc = "program")

====
